---- MODULE Spec2Model ----
(***************************************************************************)
(* Model of the Azure AI Foundry agent server: the user -> thread mapping  *)
(* of AzureAgentManager (src/src/azure_agent.py), the MCP surface          *)
(* (src/src/main.py) and the REST surface (src/start_server.py).           *)
(*                                                                         *)
(* Every request is a coroutine on one asyncio event loop.  `running` is   *)
(* the coroutine that holds the loop: a coroutine runs without             *)
(* interleaving until it awaits real I/O (asyncio.to_thread, request.body) *)
(* or finishes, and only then may another coroutine start or resume.       *)
(***************************************************************************)
EXTENDS Integers, Sequences, FiniteSets, TLC

\* ---------------------------------------------------------------- bounds
NumProcs == 2      \* requests in flight or answered between two process starts
MaxRequests == 2   \* requests received over the whole run
MaxClock == 1      \* seconds of wall clock read by the test-mode thread names
MaxFileLen == 3    \* JSON tokens in a mapping file that the program did not write

Procs == 1..NumProcs
NoOne == 0

\* ---------------------------------------------------------------- values
Tokens == {"tA", "tB"}
Users == {"uA", "uB"}
IdOrder == <<"uA", "uB">>
Calls == {"send_message", "list_messages", "clear_conversation", "new_conversation"}
Methods == Calls \cup {"initialize"}
NoToken == ""

\* The Authorization header: absent, or a scheme prefix followed by the rest.
NoHeader == [present |-> FALSE, prefix |-> "", rest |-> ""]
Headers ==
  {NoHeader}
    \cup {[present |-> TRUE, prefix |-> "Basic ", rest |-> "tA"],
          [present |-> TRUE, prefix |-> "Bearer ", rest |-> ""]}
    \cup {[present |-> TRUE, prefix |-> "Bearer ", rest |-> t] : t \in Tokens}

\* Thread handles.  The remote service numbers its threads; test mode names
\* a thread after the user and the clock; "stored" is a handle found in a
\* mapping file written before the model starts; NoneHandle is the "None"
\* default of dict.get in clear_conversation.
Thread(n) == [kind |-> "thread", user |-> "", n |-> n]
TestThread(u, t) == [kind |-> "test_thread", user |-> u, n |-> t]
Stored == [kind |-> "stored", user |-> "", n |-> 0]
NoneHandle == [kind |-> "None", user |-> "", n |-> 0]

EmptyTable == [k \in {} |-> NoneHandle]

\* sha256(token).hexdigest()[:16]: a fixed table over the tokens of the model.
get_user_id_from_token(token) ==
  CASE token = "tA" -> "uA"
    [] token = "tB" -> "uB"

\* An extraction that takes whatever follows the scheme, whichever scheme it is.
extract_token_any_scheme(h) ==
  IF ~h.present THEN NoToken
  ELSE h.rest

\* main.py: None for a missing header, a foreign scheme or an empty token.
extract_token_from_header(h) ==
  IF ~h.present THEN NoToken
  ELSE IF h.prefix # "Bearer " THEN NoToken
  ELSE h.rest

\* start_server.py: authorization[7:], which may be the empty string.
rest_extract_token_from_header(h) ==
  IF ~h.present \/ h.prefix # "Bearer " THEN NoToken
  ELSE h.rest

validate_token(token) == token # NoToken

\* ---------------------------------------------------------------- the mapping file
\* The text of the file is a sequence of JSON tokens.
Tok(t, k, v) == [t |-> t, k |-> k, v |-> v]
OpenBrace == Tok("{", "", NoneHandle)
CloseBrace == Tok("}", "", NoneHandle)

RECURSIVE DumpItems(_, _)
DumpItems(table, i) ==
  IF i > Len(IdOrder) THEN << >>
  ELSE (IF IdOrder[i] \in DOMAIN table
          THEN <<Tok("kv", IdOrder[i], table[IdOrder[i]])>>
          ELSE << >>) \o DumpItems(table, i + 1)

\* A dump that loses the closing brace.
json_dump_unclosed(table) == <<OpenBrace>> \o DumpItems(table, 1)

\* json.dump(self.user_threads, f, indent=2)
json_dump(table) == <<OpenBrace>> \o DumpItems(table, 1) \o <<CloseBrace>>

WellFormed(text) ==
  /\ Len(text) >= 2
  /\ text[1].t = "{"
  /\ text[Len(text)].t = "}"
  /\ \A i \in 2..(Len(text) - 1) : text[i].t = "kv"

LastIndexOf(text, k) ==
  CHOOSE i \in 2..(Len(text) - 1) :
    /\ text[i].k = k
    /\ \A j \in 2..(Len(text) - 1) : text[j].k = k => j <= i

\* json.load(f) of a well-formed object: the last value of a key wins.
json_load(text) ==
  [k \in {text[i].k : i \in 2..(Len(text) - 1)} |-> text[LastIndexOf(text, k)].v]

\* JSON that parses to something other than an object of strings: a list, a
\* number, or an object with a number as a value.
OpenBracket == Tok("[", "", NoneHandle)
CloseBracket == Tok("]", "", NoneHandle)
NumberValue == [kind |-> "number", user |-> "", n |-> 0]
NumberTok == Tok("number", "", NumberValue)
ListValue == [json |-> "list"]
ScalarValue == [json |-> "number"]

IsJsonList(text) ==
  /\ Len(text) >= 2
  /\ text[1].t = "["
  /\ text[Len(text)].t = "]"
  /\ \A i \in 2..(Len(text) - 1) : text[i].t = "number"

IsJsonScalar(text) == Len(text) = 1 /\ text[1].t = "number"

Missing == [state |-> "missing", text |-> << >>]
Unreadable == [state |-> "unreadable", text |-> << >>]
File(text) == [state |-> "text", text |-> text]

\* _load_user_thread_mapping: `raised` tells whether an exception leaves the
\* function.  os.path.exists is false for a missing file; open raises on an
\* unreadable file and json.load on unparseable text, both inside the try,
\* whose handler logs and falls through to `return {}`.
Loaded(table) == [raised |-> FALSE, table |-> table]
LoadRaises == [raised |-> TRUE, table |-> EmptyTable]

\* A loader that never reads the file.
_load_ignoring_file(d) == Loaded(EmptyTable)

\* A loader without the try/except: the exception of open or json.load escapes.
_load_unguarded(d) ==
  IF d.state = "missing" THEN Loaded(EmptyTable)
  ELSE IF d.state = "unreadable" THEN LoadRaises
  ELSE IF WellFormed(d.text) THEN Loaded(json_load(d.text))
  ELSE LoadRaises

\* json.load returns whatever value the text parses to, and the function
\* returns it as it is.
_load_user_thread_mapping(d) ==
  IF d.state = "missing" THEN Loaded(EmptyTable)
  ELSE IF d.state = "unreadable" THEN Loaded(EmptyTable)
  ELSE IF WellFormed(d.text) THEN Loaded(json_load(d.text))
  ELSE IF IsJsonList(d.text) THEN Loaded(ListValue)
  ELSE IF IsJsonScalar(d.text) THEN Loaded(ScalarValue)
  ELSE Loaded(EmptyTable)

\* What open(file, 'w') and json.dump leave in the file: the full text, the
\* old file (open raised) or a proper prefix of the text (the write raised
\* after open truncated the file).
SaveOutcomes(d, table) ==
  IF d.state = "unreadable" THEN {d}
  ELSE {File(json_dump(table)), d}
         \cup {File(SubSeq(json_dump(table), 1, n)) : n \in 0..(Len(json_dump(table)) - 1)}

InitDisks ==
  {Missing, Unreadable, File(<< >>), File(json_dump(EmptyTable)),
   File(json_dump([k \in {"uA"} |-> Stored]))}

\* ---------------------------------------------------------------- results
Text(kind, old, new) == [kind |-> kind, old |-> old, new |-> new, how |-> "return"]
Raised(kind) == [kind |-> kind, old |-> NoneHandle, new |-> NoneHandle, how |-> "raise"]
NoResult == [kind |-> "", old |-> NoneHandle, new |-> NoneHandle, how |-> ""]

\* ---------------------------------------------------------------- state
VARIABLES
  test_mode,        \* AzureAgentManager.test_mode
  mode,             \* start_server.py --mode: "http" (MCP) or "api" (REST);
                    \* "direct" for a caller of the manager's own methods
  serving,          \* AzureAgentManager.__init__ completed: the server is up
  user_threads,     \* AzureAgentManager.user_threads
  disk,             \* user_thread_mapping.json
  _mapping_lock,    \* owner of AzureAgentManager._mapping_lock, or NoOne
  _current_token,   \* main.py global
  _agent,           \* AzureAgentManager._agent is loaded
  running,          \* the coroutine holding the event loop, or NoOne
  pc,               \* where each request is
  token,            \* the request's own bearer token
  call,             \* the tool or endpoint (or MCP method) requested
  user_id,          \* the user_id the manager operation runs with
  thread_id,        \* local thread_id / new_thread_id
  old_thread_id,    \* local old_thread_id of clear_conversation
  exc,              \* exception in flight in the request
  result,           \* what the request got back
  issued,           \* handles the remote service (or test mode) has issued
  now,              \* int(time.time())
  booted,           \* the mapping file and the table loaded at the last process start
  started,          \* requests received so far
  hist,             \* per request: what it did (history)
  lastDone          \* per user: the last manager operation that returned (history)

config == <<test_mode, mode>>
manager == <<serving, user_threads, disk, _mapping_lock, _agent>>
locals == <<token, call, user_id, thread_id, old_thread_id, exc, result>>
remote == <<issued, now>>
history == <<booted, started, hist, lastDone>>
vars == <<config, manager, _current_token, running, pc, locals, remote, history>>

NoHist ==
  [entered |-> FALSE, resolved |-> FALSE, created |-> FALSE, createFailed |-> FALSE,
   stale |-> FALSE, inserted |-> FALSE, removed |-> FALSE, saveFailed |-> FALSE,
   overlap |-> FALSE, atEntry |-> NoneHandle, prevKind |-> "none", prevNew |-> NoneHandle,
   prevClean |-> FALSE, remoteFailed |-> FALSE, header |-> NoHeader,
   saved |-> FALSE]

NoDone == [kind |-> "none", new |-> NoneHandle, clean |-> FALSE]

ManagerPcs ==
  {"e_enter", "e_locked1", "e_create", "e_lock2", "e_locked2", "e_save",
   "c_enter", "c_locked", "c_save", "c_return", "c_except",
   "s_agent", "s_agent_wait", "s_msg", "s_run", "s_list", "s_except",
   "l_check", "l_remote"}

\* Request q is inside a manager operation for user u.
ActiveOn(q, u) == pc[q] \in ManagerPcs /\ user_id[q] = u

IsClear(c) == c \in {"clear_conversation", "new_conversation"}

TypeOK ==
  /\ test_mode \in BOOLEAN
  /\ mode \in {"http", "api", "direct"}
  /\ serving \in BOOLEAN
  /\ DOMAIN user_threads \subseteq Users \cup {""}
  /\ _mapping_lock \in Procs \cup {NoOne}
  /\ _current_token \in Tokens \cup {NoToken}
  /\ running \in Procs \cup {NoOne}
  /\ now \in 0..MaxClock
  /\ started \in 0..MaxRequests

Init ==
  /\ test_mode \in BOOLEAN
  /\ mode \in {"http", "api"}
  /\ disk \in InitDisks
  /\ serving = ~_load_user_thread_mapping(disk).raised
  /\ user_threads = _load_user_thread_mapping(disk).table
  /\ booted = [disk |-> disk, table |-> _load_user_thread_mapping(disk).table]
  /\ _mapping_lock = NoOne
  /\ _current_token = NoToken
  /\ _agent = FALSE
  /\ running = NoOne
  /\ pc = [p \in Procs |-> "idle"]
  /\ token = [p \in Procs |-> NoToken]
  /\ call = [p \in Procs |-> ""]
  /\ user_id = [p \in Procs |-> ""]
  /\ thread_id = [p \in Procs |-> NoneHandle]
  /\ old_thread_id = [p \in Procs |-> NoneHandle]
  /\ exc = [p \in Procs |-> ""]
  /\ result = [p \in Procs |-> NoResult]
  /\ issued = {}
  /\ now = 0
  /\ started = 0
  /\ hist = [p \in Procs |-> NoHist]
  /\ lastDone = [u \in Users \cup {""} |-> NoDone]

\* ---------------------------------------------------------------- helpers
Goto(p, label) == pc' = [pc EXCEPT ![p] = label]

\* The first statement of the manager operation a tool or endpoint runs.
OpEntry(c) ==
  IF c = "send_message" THEN "e_enter"
  ELSE IF c = "list_messages" THEN "l_check"
  ELSE "c_enter"

\* Where _ensure_user_thread returns to, and where its exception lands.
AfterEnsure(p) == IF call[p] = "send_message" THEN "s_agent" ELSE "c_return"
ExceptPc(p) == IF call[p] = "send_message" THEN "s_except" ELSE "c_except"

\* History: request p enters a manager operation for user u.
HistEnter(p, u) ==
  [q \in Procs |->
    IF q = p
      THEN [hist[p] EXCEPT !.entered = TRUE,
                           !.overlap = \E r \in Procs \ {p} : ActiveOn(r, u),
                           !.atEntry = IF u \in DOMAIN user_threads
                                         THEN user_threads[u] ELSE NoneHandle,
                           !.prevKind = lastDone[u].kind,
                           !.prevNew = lastDone[u].new,
                           !.prevClean = lastDone[u].clean]
    ELSE IF ActiveOn(q, u) THEN [hist[q] EXCEPT !.overlap = TRUE]
    ELSE hist[q]]

\* The manager operation of p returns r (or raises) to the request handler:
\* handle_call_tool wraps it and handle_mcp_request goes on to its finally
\* block; the REST endpoint answers.
OpReturn(p, r) ==
  /\ result' = [result EXCEPT ![p] = r]
  /\ lastDone' = [lastDone EXCEPT ![user_id[p]] =
                    [kind |-> IF r.kind = "cleared" THEN "cleared" ELSE "other",
                     new |-> IF r.kind = "cleared" THEN r.new ELSE NoneHandle,
                     clean |-> ~hist[p].overlap /\ ~hist[p].stale]]
  /\ Goto(p, IF mode = "http" THEN "m_finally" ELSE "done")
  /\ running' = IF mode = "http" THEN p ELSE NoOne

\* A coroutine may take a step when it holds the loop or the loop is free.
CanRun(p) == running \in {NoOne, p}

\* Requests are numbered in the order they arrive.
Arrives(p) ==
  /\ serving
  /\ pc[p] = "idle"
  /\ running = NoOne
  /\ started < MaxRequests
  /\ \A q \in Procs : q < p => pc[q] # "idle"

\* The manager operation a tool name or endpoint runs: new_conversation is
\* an alias of clear_conversation.
Operation(name) == IF IsClear(name) THEN "clear_conversation" ELSE name

\* ---------------------------------------------------------------- MCP surface (main.py)
\* POST /mcp/ up to `await request.body()`.
handle_mcp_request(p, h) ==
  /\ mode = "http"
  /\ Arrives(p)
  /\ started' = started + 1
  /\ IF extract_token_from_header(h) = NoToken
       THEN /\ result' = [result EXCEPT ![p] = Raised("http_401")]
            /\ Goto(p, "done")
            /\ UNCHANGED <<_current_token, token>>
     ELSE IF ~validate_token(extract_token_from_header(h))
       THEN /\ result' = [result EXCEPT ![p] = Raised("http_403")]
            /\ Goto(p, "done")
            /\ UNCHANGED <<_current_token, token>>
     ELSE /\ _current_token' = extract_token_from_header(h)
          /\ token' = [token EXCEPT ![p] = extract_token_from_header(h)]
          /\ Goto(p, "m_body")
          /\ UNCHANGED result
  /\ hist' = [hist EXCEPT ![p].header = h]
  /\ UNCHANGED <<config, manager, running, call, user_id, thread_id, old_thread_id, exc,
                 remote, booted, lastDone>>

\* The body has arrived: parse it and dispatch on the method m (for
\* tools/call, m is the tool name).
mcp_dispatch(p, m) ==
  /\ pc[p] = "m_body"
  /\ CanRun(p)
  /\ running' = p
  /\ call' = [call EXCEPT ![p] = Operation(m)]
  /\ IF m = "initialize"
       THEN /\ result' = [result EXCEPT ![p] = Text("initialized", NoneHandle, NoneHandle)]
            /\ Goto(p, "m_finally")
       ELSE /\ Goto(p, "m_call")
            /\ UNCHANGED result
  /\ UNCHANGED <<config, manager, _current_token, token, user_id, thread_id,
                 old_thread_id, exc, remote, history>>

\* handle_call_tool: the user is derived from the global _current_token.
handle_call_tool(p) ==
  /\ pc[p] = "m_call"
  /\ CanRun(p)
  /\ running' = p
  /\ IF _current_token = NoToken
       THEN /\ result' = [result EXCEPT ![p] = Text("no_token_error", NoneHandle, NoneHandle)]
            /\ Goto(p, "m_finally")
            /\ UNCHANGED <<user_id, hist>>
       ELSE /\ user_id' = [user_id EXCEPT ![p] = get_user_id_from_token(_current_token)]
            /\ hist' = HistEnter(p, get_user_id_from_token(_current_token))
            /\ Goto(p, OpEntry(call[p]))
            /\ UNCHANGED result
  /\ UNCHANGED <<config, manager, _current_token, token, call, thread_id, old_thread_id,
                 exc, remote, booted, started, lastDone>>

\* finally: _current_token = None
mcp_finally(p) ==
  /\ pc[p] = "m_finally"
  /\ CanRun(p)
  /\ _current_token' = NoToken
  /\ Goto(p, "done")
  /\ running' = NoOne
  /\ UNCHANGED <<config, manager, locals, remote, history>>

\* ---------------------------------------------------------------- REST surface (start_server.py)
\* /api/send_message up to `await request.body()`; the other endpoints up
\* to their call into the manager.
api_request(p, h, c) ==
  /\ mode = "api"
  /\ Arrives(p)
  /\ started' = started + 1
  /\ IF rest_extract_token_from_header(h) = NoToken
       THEN /\ result' = [result EXCEPT ![p] = Raised("http_401")]
            /\ Goto(p, "done")
            /\ hist' = [hist EXCEPT ![p].header = h]
            /\ UNCHANGED <<token, call, user_id, running>>
     ELSE IF c = "send_message"
       THEN /\ token' = [token EXCEPT ![p] = rest_extract_token_from_header(h)]
            /\ call' = [call EXCEPT ![p] = Operation(c)]
            /\ Goto(p, "a_body")
            /\ hist' = [hist EXCEPT ![p].header = h]
            /\ UNCHANGED <<result, user_id, running>>
     ELSE /\ token' = [token EXCEPT ![p] = rest_extract_token_from_header(h)]
          /\ call' = [call EXCEPT ![p] = Operation(c)]
          /\ user_id' = [user_id EXCEPT ![p] =
                           get_user_id_from_token(rest_extract_token_from_header(h))]
          /\ hist' = [HistEnter(p, get_user_id_from_token(rest_extract_token_from_header(h)))
                        EXCEPT ![p].header = h]
          /\ Goto(p, OpEntry(c))
          /\ running' = p
          /\ UNCHANGED result
  /\ UNCHANGED <<config, manager, _current_token, thread_id, old_thread_id, exc,
                 remote, booted, lastDone>>

\* api_send_message after the body has arrived.
api_send_message(p) ==
  /\ pc[p] = "a_body"
  /\ CanRun(p)
  /\ running' = p
  /\ user_id' = [user_id EXCEPT ![p] = get_user_id_from_token(token[p])]
  /\ hist' = HistEnter(p, get_user_id_from_token(token[p]))
  /\ Goto(p, OpEntry(call[p]))
  /\ UNCHANGED <<config, manager, _current_token, token, call, thread_id, old_thread_id,
                 exc, result, remote, booted, started, lastDone>>

\* ---------------------------------------------------------------- _ensure_user_thread
\* An entry of _ensure_user_thread without the check of the user id.
ensure_acquire_unvalidated(p) ==
  /\ pc[p] = "e_enter"
  /\ CanRun(p)
  /\ running' = p
  /\ _mapping_lock = NoOne
  /\ _mapping_lock' = p
  /\ Goto(p, "e_locked1")
  /\ UNCHANGED <<config, serving, user_threads, disk, _agent, _current_token, token, call, user_id,
                 thread_id, old_thread_id, exc, result, remote, history>>

\* `if not user_id: raise ValueError`, then `with self._mapping_lock:`.
ensure_acquire(p) ==
  /\ pc[p] = "e_enter"
  /\ CanRun(p)
  /\ running' = p
  /\ IF user_id[p] = ""
       THEN /\ exc' = [exc EXCEPT ![p] = "ValueError"]
            /\ Goto(p, ExceptPc(p))
            /\ UNCHANGED _mapping_lock
       ELSE /\ _mapping_lock = NoOne
            /\ _mapping_lock' = p
            /\ Goto(p, "e_locked1")
            /\ UNCHANGED exc
  /\ UNCHANGED <<config, serving, user_threads, disk, _agent, _current_token, token, call, user_id,
                 thread_id, old_thread_id, result, remote, history>>

\* A first check that answers from the table as it was loaded at process start.
ensure_fast_path_stale(p) ==
  /\ pc[p] = "e_locked1"
  /\ CanRun(p)
  /\ _mapping_lock' = NoOne
  /\ IF user_id[p] \in DOMAIN user_threads
       THEN /\ thread_id' = [thread_id EXCEPT ![p] =
                               IF user_id[p] \in DOMAIN booted.table
                                 THEN booted.table[user_id[p]]
                                 ELSE user_threads[user_id[p]]]
            /\ hist' = [hist EXCEPT ![p].resolved = TRUE]
            /\ Goto(p, AfterEnsure(p))
            /\ running' = p
       ELSE /\ Goto(p, "e_create")
            /\ running' = IF test_mode THEN p ELSE NoOne
            /\ UNCHANGED <<thread_id, hist>>
  /\ UNCHANGED <<config, serving, user_threads, disk, _agent, _current_token, token, call, user_id,
                 old_thread_id, exc, result, remote, booted, started, lastDone>>

\* A first check that writes the mapping file also when it found the entry.
ensure_fast_path_saving(p) ==
  /\ pc[p] = "e_locked1"
  /\ CanRun(p)
  /\ IF user_id[p] \in DOMAIN user_threads
       THEN /\ thread_id' = [thread_id EXCEPT ![p] = user_threads[user_id[p]]]
            /\ Goto(p, "e_save")
            /\ running' = p
            /\ UNCHANGED <<hist, _mapping_lock>>
       ELSE /\ Goto(p, "e_create")
            /\ _mapping_lock' = NoOne
            /\ running' = IF test_mode THEN p ELSE NoOne
            /\ UNCHANGED <<thread_id, hist>>
  /\ UNCHANGED <<config, serving, user_threads, disk, _agent, _current_token, token, call, user_id,
                 old_thread_id, exc, result, remote, booted, started, lastDone>>

\* A first check that goes on to the creation with the lock still held.
ensure_fast_path_holding(p) ==
  /\ pc[p] = "e_locked1"
  /\ CanRun(p)
  /\ IF user_id[p] \in DOMAIN user_threads
       THEN /\ thread_id' = [thread_id EXCEPT ![p] = user_threads[user_id[p]]]
            /\ hist' = [hist EXCEPT ![p].resolved = TRUE]
            /\ _mapping_lock' = NoOne
            /\ Goto(p, AfterEnsure(p))
            /\ running' = p
       ELSE /\ Goto(p, "e_create")
            /\ running' = IF test_mode THEN p ELSE NoOne
            /\ UNCHANGED <<thread_id, hist, _mapping_lock>>
  /\ UNCHANGED <<config, serving, user_threads, disk, _agent, _current_token, token, call, user_id,
                 old_thread_id, exc, result, remote, booted, started, lastDone>>

\* First check under the lock: return the existing thread, or leave the lock
\* and go on to create one (`await asyncio.to_thread(...)` unless test mode).
ensure_fast_path(p) ==
  /\ pc[p] = "e_locked1"
  /\ CanRun(p)
  /\ _mapping_lock' = NoOne
  /\ IF user_id[p] \in DOMAIN user_threads
       THEN /\ thread_id' = [thread_id EXCEPT ![p] = user_threads[user_id[p]]]
            /\ hist' = [hist EXCEPT ![p].resolved = TRUE]
            /\ Goto(p, AfterEnsure(p))
            /\ running' = p
       ELSE /\ Goto(p, "e_create")
            /\ running' = IF test_mode THEN p ELSE NoOne
            /\ UNCHANGED <<thread_id, hist>>
  /\ UNCHANGED <<config, serving, user_threads, disk, _agent, _current_token, token, call, user_id,
                 old_thread_id, exc, result, remote, booted, started, lastDone>>

\* The handle a thread creation hands out.
NewThread(u) == IF test_mode THEN TestThread(u, now) ELSE Thread(Cardinality(issued) + 1)

\* A creation whose failure is swallowed: the request goes on to the insert.
threads_create_partial(p) ==
  /\ pc[p] = "e_create"
  /\ CanRun(p)
  /\ running' = p
  /\ \E ok \in BOOLEAN :
       IF ok \/ test_mode
         THEN /\ thread_id' = [thread_id EXCEPT ![p] = NewThread(user_id[p])]
              /\ issued' = issued \cup {NewThread(user_id[p])}
              /\ hist' = [hist EXCEPT ![p].created = TRUE,
                                      ![p].stale = @ \/ NewThread(user_id[p]) \in issued]
         ELSE /\ thread_id' = [thread_id EXCEPT ![p] = NoneHandle]
              /\ hist' = [hist EXCEPT ![p].createFailed = TRUE]
              /\ UNCHANGED issued
  /\ Goto(p, "e_lock2")
  /\ UNCHANGED <<config, manager, _current_token, token, call, user_id, old_thread_id,
                 exc, result, now, booted, started, lastDone>>

\* project.agents.threads.create returns, or raises; test mode formats a name.
threads_create(p) ==
  /\ pc[p] = "e_create"
  /\ CanRun(p)
  /\ running' = p
  /\ \E ok \in BOOLEAN :
       IF ok \/ test_mode
         THEN /\ thread_id' = [thread_id EXCEPT ![p] = NewThread(user_id[p])]
              /\ issued' = issued \cup {NewThread(user_id[p])}
              /\ hist' = [hist EXCEPT ![p].created = TRUE,
                                      ![p].stale = @ \/ NewThread(user_id[p]) \in issued]
              /\ Goto(p, "e_lock2")
              /\ UNCHANGED exc
         ELSE /\ exc' = [exc EXCEPT ![p] = "RemoteError"]
              /\ hist' = [hist EXCEPT ![p].createFailed = TRUE]
              /\ Goto(p, ExceptPc(p))
              /\ UNCHANGED <<thread_id, issued>>
  /\ UNCHANGED <<config, manager, _current_token, token, call, user_id, old_thread_id,
                 result, now, booted, started, lastDone>>

\* A second section entered without taking the lock.
ensure_reacquire_skipping(p) ==
  /\ pc[p] = "e_lock2"
  /\ CanRun(p)
  /\ running' = p
  /\ Goto(p, "e_locked2")
  /\ UNCHANGED <<config, manager, _current_token, locals, remote, history>>

\* Second `with self._mapping_lock:`.
ensure_reacquire(p) ==
  /\ pc[p] = "e_lock2"
  /\ CanRun(p)
  /\ running' = p
  /\ _mapping_lock = NoOne
  /\ _mapping_lock' = p
  /\ Goto(p, "e_locked2")
  /\ UNCHANGED <<config, serving, user_threads, disk, _agent, _current_token, locals, remote,
                 history>>

\* The insert without the second check: a thread created meanwhile is overwritten.
ensure_insert_unchecked(p) ==
  /\ pc[p] = "e_locked2"
  /\ CanRun(p)
  /\ running' = p
  /\ user_threads' =
       [u \in DOMAIN user_threads \cup {user_id[p]} |->
          IF u = user_id[p] THEN thread_id[p] ELSE user_threads[u]]
  /\ hist' = [hist EXCEPT ![p].inserted = TRUE]
  /\ Goto(p, "e_save")
  /\ UNCHANGED <<config, serving, disk, _mapping_lock, _agent, _current_token, token, call,
                 user_id, thread_id, old_thread_id, exc, result, remote, booted, started,
                 lastDone>>

\* An insert that returns without saving the table.
ensure_insert_unsaved(p) ==
  /\ pc[p] = "e_locked2"
  /\ CanRun(p)
  /\ running' = p
  /\ IF user_id[p] \notin DOMAIN user_threads
       THEN /\ user_threads' =
                 [u \in DOMAIN user_threads \cup {user_id[p]} |->
                    IF u = user_id[p] THEN thread_id[p] ELSE user_threads[u]]
            /\ hist' = [hist EXCEPT ![p].inserted = TRUE, ![p].resolved = TRUE]
            /\ UNCHANGED thread_id
       ELSE /\ thread_id' = [thread_id EXCEPT ![p] = user_threads[user_id[p]]]
            /\ hist' = [hist EXCEPT ![p].resolved = TRUE]
            /\ UNCHANGED user_threads
  /\ _mapping_lock' = NoOne
  /\ Goto(p, AfterEnsure(p))
  /\ UNCHANGED <<config, serving, disk, _agent, _current_token, token, call, user_id,
                 old_thread_id, exc, result, remote, booted, started, lastDone>>

\* A second check that finds the other request's entry but returns the
\* handle it created itself.
ensure_insert_keeping_own(p) ==
  /\ pc[p] = "e_locked2"
  /\ CanRun(p)
  /\ running' = p
  /\ IF user_id[p] \notin DOMAIN user_threads
       THEN /\ user_threads' =
                 [u \in DOMAIN user_threads \cup {user_id[p]} |->
                    IF u = user_id[p] THEN thread_id[p] ELSE user_threads[u]]
            /\ hist' = [hist EXCEPT ![p].inserted = TRUE]
            /\ Goto(p, "e_save")
            /\ UNCHANGED _mapping_lock
       ELSE /\ hist' = [hist EXCEPT ![p].resolved = TRUE]
            /\ _mapping_lock' = NoOne
            /\ Goto(p, AfterEnsure(p))
            /\ UNCHANGED user_threads
  /\ UNCHANGED <<config, serving, disk, _agent, _current_token, token, call, user_id,
                 thread_id, old_thread_id, exc, result, remote, booted, started, lastDone>>

\* A second check that, when it inserts, starts a table of its own entry alone.
ensure_insert_alone(p) ==
  /\ pc[p] = "e_locked2"
  /\ CanRun(p)
  /\ running' = p
  /\ IF user_id[p] \notin DOMAIN user_threads
       THEN /\ user_threads' = [u \in {user_id[p]} |-> thread_id[p]]
            /\ hist' = [hist EXCEPT ![p].inserted = TRUE]
            /\ Goto(p, "e_save")
            /\ UNCHANGED <<_mapping_lock, thread_id>>
       ELSE /\ thread_id' = [thread_id EXCEPT ![p] = user_threads[user_id[p]]]
            /\ hist' = [hist EXCEPT ![p].resolved = TRUE]
            /\ _mapping_lock' = NoOne
            /\ Goto(p, AfterEnsure(p))
            /\ UNCHANGED user_threads
  /\ UNCHANGED <<config, serving, disk, _agent, _current_token, token, call, user_id,
                 old_thread_id, exc, result, remote, booted, started, lastDone>>

\* Second check under the lock: insert the new thread, or use the one that
\* another request inserted meanwhile.
ensure_insert(p) ==
  /\ pc[p] = "e_locked2"
  /\ CanRun(p)
  /\ running' = p
  /\ IF user_id[p] \notin DOMAIN user_threads
       THEN /\ user_threads' =
                 [u \in DOMAIN user_threads \cup {user_id[p]} |->
                    IF u = user_id[p] THEN thread_id[p] ELSE user_threads[u]]
            /\ hist' = [hist EXCEPT ![p].inserted = TRUE]
            /\ Goto(p, "e_save")
            /\ UNCHANGED <<_mapping_lock, thread_id>>
       ELSE /\ thread_id' = [thread_id EXCEPT ![p] = user_threads[user_id[p]]]
            /\ hist' = [hist EXCEPT ![p].resolved = TRUE]
            /\ _mapping_lock' = NoOne
            /\ Goto(p, AfterEnsure(p))
            /\ UNCHANGED user_threads
  /\ UNCHANGED <<config, serving, disk, _agent, _current_token, token, call, user_id,
                 old_thread_id, exc, result, remote, booted, started, lastDone>>

\* ---------------------------------------------------------------- _save_user_thread_mapping_locked
\* A save that, when the write fails, puts the table back to what the file holds.
_save_rolling_back(p) ==
  /\ pc[p] \in {"e_save", "c_save"}
  /\ CanRun(p)
  /\ running' = p
  /\ \E d \in SaveOutcomes(disk, user_threads) :
       /\ disk' = d
       /\ user_threads' = IF d = File(json_dump(user_threads))
                            THEN user_threads ELSE _load_user_thread_mapping(d).table
       /\ hist' = [hist EXCEPT
                     ![p].saved = TRUE,
                     ![p].saveFailed = @ \/ d # File(json_dump(user_threads)),
                     ![p].resolved = @ \/ pc[p] = "e_save"]
  /\ _mapping_lock' = NoOne
  /\ Goto(p, IF pc[p] = "e_save" THEN AfterEnsure(p) ELSE "e_enter")
  /\ UNCHANGED <<config, serving, _agent, _current_token, locals, remote,
                 booted, started, lastDone>>

\* A save that keeps the lock when the write fails.
_save_leaking_lock(p) ==
  /\ pc[p] \in {"e_save", "c_save"}
  /\ CanRun(p)
  /\ running' = p
  /\ \E d \in SaveOutcomes(disk, user_threads) :
       /\ disk' = d
       /\ hist' = [hist EXCEPT
                     ![p].saved = TRUE,
                     ![p].saveFailed = @ \/ d # File(json_dump(user_threads)),
                     ![p].resolved = @ \/ pc[p] = "e_save"]
       /\ _mapping_lock' = IF d = File(json_dump(user_threads)) THEN NoOne ELSE p
  /\ Goto(p, IF pc[p] = "e_save" THEN AfterEnsure(p) ELSE "e_enter")
  /\ UNCHANGED <<config, serving, user_threads, _agent, _current_token, locals, remote,
                 booted, started, lastDone>>

\* Called with the lock held, after the insert of _ensure_user_thread or the
\* delete of clear_conversation; an exception of open or json.dump is logged
\* and swallowed.  The caller then leaves its `with` block.
_save_user_thread_mapping_locked(p) ==
  /\ pc[p] \in {"e_save", "c_save"}
  /\ CanRun(p)
  /\ running' = p
  /\ \E d \in SaveOutcomes(disk, user_threads) :
       /\ disk' = d
       /\ hist' = [hist EXCEPT
                     ![p].saved = TRUE,
                     ![p].saveFailed = @ \/ d # File(json_dump(user_threads)),
                     ![p].resolved = @ \/ pc[p] = "e_save"]
  /\ _mapping_lock' = NoOne
  /\ Goto(p, IF pc[p] = "e_save" THEN AfterEnsure(p) ELSE "e_enter")
  /\ UNCHANGED <<config, serving, user_threads, _agent, _current_token, locals, remote,
                 booted, started, lastDone>>

\* ---------------------------------------------------------------- clear_conversation
\* `with self._mapping_lock:`
clear_acquire(p) ==
  /\ pc[p] = "c_enter"
  /\ CanRun(p)
  /\ running' = p
  /\ _mapping_lock = NoOne
  /\ _mapping_lock' = p
  /\ Goto(p, "c_locked")
  /\ UNCHANGED <<config, serving, user_threads, disk, _agent, _current_token, locals, remote,
                 history>>

\* A reset that reads the old thread but forgets to delete the entry.
clear_remove_keeping(p) ==
  /\ pc[p] = "c_locked"
  /\ CanRun(p)
  /\ running' = p
  /\ old_thread_id' = [old_thread_id EXCEPT ![p] =
                         IF user_id[p] \in DOMAIN user_threads
                           THEN user_threads[user_id[p]] ELSE NoneHandle]
  /\ _mapping_lock' = NoOne
  /\ Goto(p, "e_enter")
  /\ UNCHANGED <<config, serving, user_threads, disk, _agent, _current_token, token, call,
                 user_id, thread_id, exc, result, remote, history>>

\* A reset that deletes the entry without having read it into old_thread_id.
clear_remove_reporting_none(p) ==
  /\ pc[p] = "c_locked"
  /\ CanRun(p)
  /\ running' = p
  /\ IF user_id[p] \in DOMAIN user_threads
       THEN /\ user_threads' = [u \in DOMAIN user_threads \ {user_id[p]} |-> user_threads[u]]
            /\ hist' = [hist EXCEPT ![p].removed = TRUE]
            /\ Goto(p, "c_save")
            /\ UNCHANGED _mapping_lock
       ELSE /\ _mapping_lock' = NoOne
            /\ Goto(p, "e_enter")
            /\ UNCHANGED <<user_threads, hist>>
  /\ UNCHANGED <<config, serving, disk, _agent, _current_token, token, call, user_id, thread_id,
                 old_thread_id, exc, result, remote, booted, started, lastDone>>

\* A reset that deletes the entry and leaves the file for the insert to write.
clear_remove_unsaved(p) ==
  /\ pc[p] = "c_locked"
  /\ CanRun(p)
  /\ running' = p
  /\ old_thread_id' = [old_thread_id EXCEPT ![p] =
                         IF user_id[p] \in DOMAIN user_threads
                           THEN user_threads[user_id[p]] ELSE NoneHandle]
  /\ IF user_id[p] \in DOMAIN user_threads
       THEN /\ user_threads' = [u \in DOMAIN user_threads \ {user_id[p]} |-> user_threads[u]]
            /\ hist' = [hist EXCEPT ![p].removed = TRUE]
       ELSE UNCHANGED <<user_threads, hist>>
  /\ _mapping_lock' = NoOne
  /\ Goto(p, "e_enter")
  /\ UNCHANGED <<config, serving, disk, _agent, _current_token, token, call, user_id, thread_id,
                 exc, result, remote, booted, started, lastDone>>

\* A reset that saves the table whether or not it deleted an entry.
clear_remove_always_saving(p) ==
  /\ pc[p] = "c_locked"
  /\ CanRun(p)
  /\ running' = p
  /\ old_thread_id' = [old_thread_id EXCEPT ![p] =
                         IF user_id[p] \in DOMAIN user_threads
                           THEN user_threads[user_id[p]] ELSE NoneHandle]
  /\ IF user_id[p] \in DOMAIN user_threads
       THEN /\ user_threads' = [u \in DOMAIN user_threads \ {user_id[p]} |-> user_threads[u]]
            /\ hist' = [hist EXCEPT ![p].removed = TRUE]
       ELSE UNCHANGED <<user_threads, hist>>
  /\ Goto(p, "c_save")
  /\ UNCHANGED <<config, serving, disk, _mapping_lock, _agent, _current_token, token, call,
                 user_id, thread_id, exc, result, remote, booted, started, lastDone>>

\* A reset that leaves its `with` block before it saves.
clear_remove_saving_outside(p) ==
  /\ pc[p] = "c_locked"
  /\ CanRun(p)
  /\ running' = p
  /\ old_thread_id' = [old_thread_id EXCEPT ![p] =
                         IF user_id[p] \in DOMAIN user_threads
                           THEN user_threads[user_id[p]] ELSE NoneHandle]
  /\ _mapping_lock' = NoOne
  /\ IF user_id[p] \in DOMAIN user_threads
       THEN /\ user_threads' = [u \in DOMAIN user_threads \ {user_id[p]} |-> user_threads[u]]
            /\ hist' = [hist EXCEPT ![p].removed = TRUE]
            /\ Goto(p, "c_save")
       ELSE /\ Goto(p, "e_enter")
            /\ UNCHANGED <<user_threads, hist>>
  /\ UNCHANGED <<config, serving, disk, _agent, _current_token, token, call, user_id, thread_id,
                 exc, result, remote, booted, started, lastDone>>

\* A reset that calls _ensure_user_thread inside its `with` block when there
\* was no entry to delete.
clear_remove_holding(p) ==
  /\ pc[p] = "c_locked"
  /\ CanRun(p)
  /\ running' = p
  /\ old_thread_id' = [old_thread_id EXCEPT ![p] =
                         IF user_id[p] \in DOMAIN user_threads
                           THEN user_threads[user_id[p]] ELSE NoneHandle]
  /\ IF user_id[p] \in DOMAIN user_threads
       THEN /\ user_threads' = [u \in DOMAIN user_threads \ {user_id[p]} |-> user_threads[u]]
            /\ hist' = [hist EXCEPT ![p].removed = TRUE]
            /\ Goto(p, "c_save")
       ELSE /\ Goto(p, "e_enter")
            /\ UNCHANGED <<user_threads, hist>>
  /\ UNCHANGED <<config, serving, disk, _mapping_lock, _agent, _current_token, token, call,
                 user_id, thread_id, exc, result, remote, booted, started, lastDone>>

\* old_thread_id = self.user_threads.get(user_id, "None"); delete the entry
\* if there is one (and save), then leave the lock and call _ensure_user_thread.
clear_remove(p) ==
  /\ pc[p] = "c_locked"
  /\ CanRun(p)
  /\ running' = p
  /\ old_thread_id' = [old_thread_id EXCEPT ![p] =
                         IF user_id[p] \in DOMAIN user_threads
                           THEN user_threads[user_id[p]] ELSE NoneHandle]
  /\ IF user_id[p] \in DOMAIN user_threads
       THEN /\ user_threads' = [u \in DOMAIN user_threads \ {user_id[p]} |-> user_threads[u]]
            /\ hist' = [hist EXCEPT ![p].removed = TRUE]
            /\ Goto(p, "c_save")
            /\ UNCHANGED _mapping_lock
       ELSE /\ _mapping_lock' = NoOne
            /\ Goto(p, "e_enter")
            /\ UNCHANGED <<user_threads, hist>>
  /\ UNCHANGED <<config, serving, disk, _agent, _current_token, token, call, user_id, thread_id,
                 exc, result, remote, booted, started, lastDone>>

\* return f"Conversation cleared successfully. Old thread: ..., New thread: ..."
clear_return(p) ==
  /\ pc[p] = "c_return"
  /\ CanRun(p)
  /\ OpReturn(p, Text("cleared", old_thread_id[p], thread_id[p]))
  /\ UNCHANGED <<config, manager, _current_token, token, call, user_id, thread_id,
                 old_thread_id, exc, remote, booted, started, hist>>

\* A handler that puts the removed entry back before it answers.
clear_except_restoring(p) ==
  /\ pc[p] = "c_except"
  /\ CanRun(p)
  /\ exc' = [exc EXCEPT ![p] = ""]
  /\ user_threads' =
       IF old_thread_id[p] # NoneHandle /\ user_id[p] \notin DOMAIN user_threads
         THEN [u \in DOMAIN user_threads \cup {user_id[p]} |->
                 IF u = user_id[p] THEN old_thread_id[p] ELSE user_threads[u]]
         ELSE user_threads
  /\ OpReturn(p, Text("failed_clear", NoneHandle, NoneHandle))
  /\ UNCHANGED <<config, serving, disk, _mapping_lock, _agent, _current_token, token, call,
                 user_id, thread_id, old_thread_id, remote, booted, started, hist>>

\* A handler that lets the exception leave clear_conversation.
clear_except_reraise(p) ==
  /\ pc[p] = "c_except"
  /\ CanRun(p)
  /\ exc' = [exc EXCEPT ![p] = ""]
  /\ OpReturn(p, Raised(exc[p]))
  /\ UNCHANGED <<config, manager, _current_token, token, call, user_id, thread_id,
                 old_thread_id, remote, booted, started, hist>>

\* except Exception as e: return f"Failed to clear conversation: {e}"
clear_except(p) ==
  /\ pc[p] = "c_except"
  /\ CanRun(p)
  /\ exc' = [exc EXCEPT ![p] = ""]
  /\ OpReturn(p, Text("failed_clear", NoneHandle, NoneHandle))
  /\ UNCHANGED <<config, manager, _current_token, token, call, user_id, thread_id,
                 old_thread_id, remote, booted, started, hist>>

\* ---------------------------------------------------------------- send_message
\* agent = await self._get_agent(): test mode answers with the mock reply;
\* otherwise the agent is fetched once (a remote call) and the user message
\* is created on the thread.
get_agent(p) ==
  /\ pc[p] = "s_agent"
  /\ CanRun(p)
  /\ IF test_mode
       THEN /\ OpReturn(p, Text("mock_reply", NoneHandle, NoneHandle))
       ELSE /\ Goto(p, IF _agent THEN "s_msg" ELSE "s_agent_wait")
            /\ running' = NoOne
            /\ UNCHANGED <<result, lastDone>>
  /\ UNCHANGED <<config, manager, _current_token, token, call, user_id, thread_id,
                 old_thread_id, exc, remote, booted, started, hist>>

\* project.agents.get_agent returns or raises.
get_agent_done(p) ==
  /\ pc[p] = "s_agent_wait"
  /\ CanRun(p)
  /\ \E ok \in BOOLEAN :
       IF ok
         THEN /\ _agent' = TRUE
              /\ Goto(p, "s_msg")
              /\ running' = NoOne
              /\ UNCHANGED <<exc, hist>>
         ELSE /\ exc' = [exc EXCEPT ![p] = "RemoteError"]
              /\ hist' = [hist EXCEPT ![p].remoteFailed = TRUE]
              /\ Goto(p, "s_except")
              /\ running' = p
              /\ UNCHANGED _agent
  /\ UNCHANGED <<config, serving, user_threads, disk, _mapping_lock, _current_token, token, call,
                 user_id, thread_id, old_thread_id, result, remote, booted, started, lastDone>>

\* project.agents.messages.create returns or raises.
messages_create(p) ==
  /\ pc[p] = "s_msg"
  /\ CanRun(p)
  /\ \E ok \in BOOLEAN :
       IF ok
         THEN /\ Goto(p, "s_run")
              /\ running' = NoOne
              /\ UNCHANGED <<exc, hist>>
         ELSE /\ exc' = [exc EXCEPT ![p] = "RemoteError"]
              /\ hist' = [hist EXCEPT ![p].remoteFailed = TRUE]
              /\ Goto(p, "s_except")
              /\ running' = p
  /\ UNCHANGED <<config, manager, _current_token, token, call, user_id, thread_id,
                 old_thread_id, result, remote, booted, started, lastDone>>

\* project.agents.runs.create_and_process: completed, status "failed", or raises.
runs_create_and_process(p) ==
  /\ pc[p] = "s_run"
  /\ CanRun(p)
  /\ \E outcome \in {"completed", "failed", "raise"} :
       CASE outcome = "completed" ->
              /\ Goto(p, "s_list")
              /\ running' = NoOne
              /\ UNCHANGED <<exc, result, lastDone, hist>>
         [] outcome = "failed" ->
              /\ OpReturn(p, Text("run_failed", NoneHandle, NoneHandle))
              /\ hist' = [hist EXCEPT ![p].remoteFailed = TRUE]
              /\ UNCHANGED exc
         [] outcome = "raise" ->
              /\ exc' = [exc EXCEPT ![p] = "RemoteError"]
              /\ hist' = [hist EXCEPT ![p].remoteFailed = TRUE]
              /\ Goto(p, "s_except")
              /\ running' = p
              /\ UNCHANGED <<result, lastDone>>
  /\ UNCHANGED <<config, manager, _current_token, token, call, user_id, thread_id,
                 old_thread_id, remote, booted, started>>

\* project.agents.messages.list (descending): the latest assistant text, none, or raises.
messages_list_latest(p) ==
  /\ pc[p] = "s_list"
  /\ CanRun(p)
  /\ \E outcome \in {"reply", "no_response", "raise"} :
       IF outcome = "raise"
         THEN /\ exc' = [exc EXCEPT ![p] = "RemoteError"]
              /\ hist' = [hist EXCEPT ![p].remoteFailed = TRUE]
              /\ Goto(p, "s_except")
              /\ running' = p
              /\ UNCHANGED <<result, lastDone>>
         ELSE /\ OpReturn(p, Text(outcome, NoneHandle, NoneHandle))
              /\ UNCHANGED <<exc, hist>>
  /\ UNCHANGED <<config, manager, _current_token, token, call, user_id, thread_id,
                 old_thread_id, remote, booted, started>>

\* A handler that lets the exception leave send_message.
send_except_reraise(p) ==
  /\ pc[p] = "s_except"
  /\ CanRun(p)
  /\ exc' = [exc EXCEPT ![p] = ""]
  /\ OpReturn(p, Raised(exc[p]))
  /\ UNCHANGED <<config, manager, _current_token, token, call, user_id, thread_id,
                 old_thread_id, remote, booted, started, hist>>

\* except Exception as e: return f"Failed to send message: {e}"
send_except(p) ==
  /\ pc[p] = "s_except"
  /\ CanRun(p)
  /\ exc' = [exc EXCEPT ![p] = ""]
  /\ OpReturn(p, Text("failed_send", NoneHandle, NoneHandle))
  /\ UNCHANGED <<config, manager, _current_token, token, call, user_id, thread_id,
                 old_thread_id, remote, booted, started, hist>>

\* ---------------------------------------------------------------- list_messages
\* A listing that resolves the thread the way send_message does.
list_messages_resolving(p) ==
  /\ pc[p] = "l_check"
  /\ CanRun(p)
  /\ running' = p
  /\ Goto(p, "e_enter")
  /\ UNCHANGED <<config, manager, _current_token, locals, remote, history>>

\* The membership test and the read, without the lock; test mode answers
\* with the mock transcript, otherwise the messages are fetched.
list_messages(p) ==
  /\ pc[p] = "l_check"
  /\ CanRun(p)
  /\ IF user_id[p] \notin DOMAIN user_threads
       THEN /\ OpReturn(p, Text("no_thread", NoneHandle, NoneHandle))
            /\ UNCHANGED thread_id
     ELSE IF test_mode
       THEN /\ thread_id' = [thread_id EXCEPT ![p] = user_threads[user_id[p]]]
            /\ OpReturn(p, Text("mock_messages", NoneHandle, user_threads[user_id[p]]))
     ELSE /\ thread_id' = [thread_id EXCEPT ![p] = user_threads[user_id[p]]]
          /\ Goto(p, "l_remote")
          /\ running' = NoOne
          /\ UNCHANGED <<result, lastDone>>
  /\ UNCHANGED <<config, manager, _current_token, token, call, user_id, old_thread_id,
                 exc, remote, booted, started, hist>>

\* project.agents.messages.list (ascending): a transcript, an empty thread,
\* or an exception turned into "Failed to list messages: ...".
list_remote(p) ==
  /\ pc[p] = "l_remote"
  /\ CanRun(p)
  /\ \E outcome \in {"messages", "no_messages", "failed_list"} :
       /\ OpReturn(p, Text(outcome, NoneHandle, thread_id[p]))
       /\ hist' = [hist EXCEPT ![p].remoteFailed = (outcome = "failed_list")]
  /\ UNCHANGED <<config, manager, _current_token, token, call, user_id, thread_id,
                 old_thread_id, exc, remote, booted, started>>

\* ---------------------------------------------------------------- environment
\* The process stops (at any point, so possibly in the middle of a save) and
\* starts again: AzureAgentManager.__init__ loads the mapping file.
Restart ==
  /\ \E d \in (IF \E p \in Procs : pc[p] \in {"e_save", "c_save"}
                 THEN SaveOutcomes(disk, user_threads) ELSE {disk}) :
       /\ disk' = d
       /\ serving' = ~_load_user_thread_mapping(d).raised
       /\ user_threads' = _load_user_thread_mapping(d).table
       /\ booted' = [disk |-> d, table |-> _load_user_thread_mapping(d).table]
  /\ _mapping_lock' = NoOne
  /\ _current_token' = NoToken
  /\ _agent' = FALSE
  /\ running' = NoOne
  /\ pc' = [p \in Procs |-> "idle"]
  /\ token' = [p \in Procs |-> NoToken]
  /\ call' = [p \in Procs |-> ""]
  /\ user_id' = [p \in Procs |-> ""]
  /\ thread_id' = [p \in Procs |-> NoneHandle]
  /\ old_thread_id' = [p \in Procs |-> NoneHandle]
  /\ exc' = [p \in Procs |-> ""]
  /\ result' = [p \in Procs |-> NoResult]
  /\ hist' = [p \in Procs |-> NoHist]
  /\ lastDone' = [u \in Users \cup {""} |-> NoDone]
  /\ UNCHANGED <<config, remote, started>>

\* A second passes; only the test-mode thread names read the clock.
Tick ==
  /\ test_mode
  /\ now < MaxClock
  /\ now' = now + 1
  /\ UNCHANGED <<config, manager, _current_token, running, pc, locals, issued, history>>

Next ==
  \/ \E p \in Procs, h \in Headers : handle_mcp_request(p, h)
  \/ \E p \in Procs, m \in Methods : mcp_dispatch(p, m)
  \/ \E p \in Procs : handle_call_tool(p)
  \/ \E p \in Procs : mcp_finally(p)
  \/ \E p \in Procs, h \in Headers, c \in Calls : api_request(p, h, c)
  \/ \E p \in Procs : api_send_message(p)
  \/ \E p \in Procs : ensure_acquire(p)
  \/ \E p \in Procs : ensure_fast_path(p)
  \/ \E p \in Procs : threads_create(p)
  \/ \E p \in Procs : ensure_reacquire(p)
  \/ \E p \in Procs : ensure_insert(p)
  \/ \E p \in Procs : _save_user_thread_mapping_locked(p)
  \/ \E p \in Procs : clear_acquire(p)
  \/ \E p \in Procs : clear_remove(p)
  \/ \E p \in Procs : clear_return(p)
  \/ \E p \in Procs : clear_except(p)
  \/ \E p \in Procs : get_agent(p)
  \/ \E p \in Procs : get_agent_done(p)
  \/ \E p \in Procs : messages_create(p)
  \/ \E p \in Procs : runs_create_and_process(p)
  \/ \E p \in Procs : messages_list_latest(p)
  \/ \E p \in Procs : send_except(p)
  \/ \E p \in Procs : list_messages(p)
  \/ \E p \in Procs : list_remote(p)
  \/ Restart
  \/ Tick

Spec == Init /\ [][Next]_vars

\* ---------------------------------------------------------------- the manager called directly
\* A caller of AzureAgentManager.send_message, list_messages and
\* clear_conversation that passes any user id, the empty string included
\* (no surface does: both derive the id from a non-empty token).
DirectIds == {"", "uA"}

DirectInit ==
  /\ test_mode \in BOOLEAN
  /\ mode = "direct"
  /\ disk \in InitDisks
  /\ serving = ~_load_user_thread_mapping(disk).raised
  /\ user_threads = _load_user_thread_mapping(disk).table
  /\ booted = [disk |-> disk, table |-> _load_user_thread_mapping(disk).table]
  /\ _mapping_lock = NoOne
  /\ _current_token = NoToken
  /\ _agent = FALSE
  /\ running = NoOne
  /\ pc = [p \in Procs |-> "idle"]
  /\ token = [p \in Procs |-> NoToken]
  /\ call = [p \in Procs |-> ""]
  /\ user_id = [p \in Procs |-> ""]
  /\ thread_id = [p \in Procs |-> NoneHandle]
  /\ old_thread_id = [p \in Procs |-> NoneHandle]
  /\ exc = [p \in Procs |-> ""]
  /\ result = [p \in Procs |-> NoResult]
  /\ issued = {}
  /\ now = 0
  /\ started = 0
  /\ hist = [p \in Procs |-> NoHist]
  /\ lastDone = [u \in Users \cup {""} |-> NoDone]

\* await agent_manager.<c>(..., user_id=u)
manager_call(p, c, u) ==
  /\ mode = "direct"
  /\ Arrives(p)
  /\ started' = started + 1
  /\ call' = [call EXCEPT ![p] = Operation(c)]
  /\ user_id' = [user_id EXCEPT ![p] = u]
  /\ hist' = HistEnter(p, u)
  /\ Goto(p, OpEntry(c))
  /\ running' = p
  /\ UNCHANGED <<config, manager, _current_token, token, thread_id, old_thread_id, exc,
                 result, remote, booted, lastDone>>

DirectNext ==
  \/ \E p \in Procs, c \in Calls, u \in DirectIds : manager_call(p, c, u)
  \/ \E p \in Procs : ensure_acquire(p)
  \/ \E p \in Procs : ensure_fast_path(p)
  \/ \E p \in Procs : threads_create(p)
  \/ \E p \in Procs : ensure_reacquire(p)
  \/ \E p \in Procs : ensure_insert(p)
  \/ \E p \in Procs : _save_user_thread_mapping_locked(p)
  \/ \E p \in Procs : clear_acquire(p)
  \/ \E p \in Procs : clear_remove(p)
  \/ \E p \in Procs : clear_return(p)
  \/ \E p \in Procs : clear_except(p)
  \/ \E p \in Procs : get_agent(p)
  \/ \E p \in Procs : get_agent_done(p)
  \/ \E p \in Procs : messages_create(p)
  \/ \E p \in Procs : runs_create_and_process(p)
  \/ \E p \in Procs : messages_list_latest(p)
  \/ \E p \in Procs : send_except(p)
  \/ \E p \in Procs : list_messages(p)
  \/ \E p \in Procs : list_remote(p)
  \/ Restart
  \/ Tick

DirectSpec == DirectInit /\ [][DirectNext]_vars

\* The steps of request p inside the manager.
ManagerStep(p) ==
  \/ ensure_acquire(p)
  \/ ensure_fast_path(p)
  \/ threads_create(p)
  \/ ensure_reacquire(p)
  \/ ensure_insert(p)
  \/ _save_user_thread_mapping_locked(p)
  \/ clear_acquire(p)
  \/ clear_remove(p)
  \/ clear_return(p)
  \/ clear_except(p)
  \/ get_agent(p)
  \/ get_agent_done(p)
  \/ messages_create(p)
  \/ runs_create_and_process(p)
  \/ messages_list_latest(p)
  \/ send_except(p)
  \/ list_messages(p)
  \/ list_remote(p)

\* The event loop runs every coroutine that is ready, a `with` on a free lock
\* goes on, and every remote call sooner or later returns or raises.
DirectFairSpec == DirectSpec /\ \A p \in Procs : WF_vars(ManagerStep(p))

\* ---------------------------------------------------------------- the loader on foreign files
\* The process starts on a mapping file that somebody else wrote: any text of
\* up to MaxFileLen JSON tokens.
JsonTokens ==
  {OpenBrace, CloseBrace, OpenBracket, CloseBracket, NumberTok,
   Tok("kv", "uA", Stored), Tok("kv", "uA", NumberValue)}

LoaderDisks ==
  {Missing, Unreadable}
    \cup {File(text) : text \in UNION {[1..n -> JsonTokens] : n \in 0..MaxFileLen}}

LoaderInit ==
  /\ test_mode \in BOOLEAN
  /\ mode \in {"http", "api"}
  /\ disk \in LoaderDisks
  /\ serving = FALSE
  /\ user_threads = EmptyTable
  /\ booted = [disk |-> disk, table |-> EmptyTable]
  /\ _mapping_lock = NoOne
  /\ _current_token = NoToken
  /\ _agent = FALSE
  /\ running = NoOne
  /\ pc = [p \in Procs |-> "idle"]
  /\ token = [p \in Procs |-> NoToken]
  /\ call = [p \in Procs |-> ""]
  /\ user_id = [p \in Procs |-> ""]
  /\ thread_id = [p \in Procs |-> NoneHandle]
  /\ old_thread_id = [p \in Procs |-> NoneHandle]
  /\ exc = [p \in Procs |-> ""]
  /\ result = [p \in Procs |-> NoResult]
  /\ issued = {}
  /\ now = 0
  /\ started = 0
  /\ hist = [p \in Procs |-> NoHist]
  /\ lastDone = [u \in Users \cup {""} |-> NoDone]

\* AzureAgentManager.__init__: self.user_threads = self._load_user_thread_mapping()
manager_init ==
  /\ ~serving
  /\ ~_load_user_thread_mapping(disk).raised
  /\ serving' = TRUE
  /\ user_threads' = _load_user_thread_mapping(disk).table
  /\ booted' = [disk |-> disk, table |-> _load_user_thread_mapping(disk).table]
  /\ UNCHANGED <<config, disk, _mapping_lock, _agent, _current_token, running, pc, locals,
                 remote, started, hist, lastDone>>

LoaderNext == manager_init

LoaderSpec == LoaderInit /\ [][LoaderNext]_vars

\* ---------------------------------------------------------------- properties
Returned(p) == pc[p] \in {"m_finally", "done"} /\ hist[p].entered

\* No clear_conversation for user u has been called since the process started.
NoResetOn(u) ==
  \A q \in Procs : ~(hist[q].entered /\ user_id[q] = u /\ call[q] = "clear_conversation")

\* C1: with no reset of a user, every _ensure_user_thread call for that user
\* that has returned got the handle the table holds for the user, also when
\* several of the calls created a remote thread of their own.
C1_ResolversAgree ==
  \A p \in Procs :
    (hist[p].resolved /\ NoResetOn(user_id[p]))
      => /\ user_id[p] \in DOMAIN user_threads
         /\ user_threads[user_id[p]] = thread_id[p]

C1_Witness ==
  \E p, q \in Procs :
    /\ p # q
    /\ user_id[p] = user_id[q]
    /\ hist[p].resolved /\ hist[q].resolved
    /\ hist[p].created /\ hist[q].created
    /\ NoResetOn(user_id[p])

\* C2: every MCP tool call runs for the user derived from the token of its
\* own request.
C2_OwnIdentity ==
  \A p \in Procs : hist[p].entered => user_id[p] = get_user_id_from_token(token[p])

\* C3: list_messages changes neither the table nor the mapping file nor
\* creates a thread, and answers "no thread" for a user without an entry.
C3_ListNeverMutates ==
  /\ [](\A p \in Procs :
          (hist[p].entered /\ call[p] = "list_messages")
            => /\ pc[p] \in {"l_check", "l_remote", "m_finally", "done"}
               /\ ~hist[p].created /\ ~hist[p].inserted /\ ~hist[p].removed)
  /\ [][\A p \in Procs :
          (pc[p] \in {"l_check", "l_remote"} /\ pc'[p] \notin {pc[p], "idle"})
            => /\ user_threads' = user_threads
               /\ disk' = disk
               /\ issued' = issued
               /\ (pc[p] = "l_check" /\ user_id[p] \notin DOMAIN user_threads)
                    => /\ result'[p].kind = "no_thread"
                       /\ user_id[p] \notin DOMAIN user_threads']_vars

C3_Witness ==
  \E p \in Procs :
    /\ Returned(p)
    /\ call[p] = "list_messages"
    /\ result[p].kind = "no_thread"
    /\ user_id[p] \notin DOMAIN user_threads

\* C4: a clear_conversation for a user that maps to H1, with no other
\* operation on the user meanwhile and no stale handle from the remote
\* service, reports H1 and a different new handle H2 and leaves the table
\* mapping the user to H2; the next _ensure_user_thread returns H2 and
\* creates nothing.
C4_ResetThenResolve ==
  /\ [][\A p \in Procs :
          (/\ pc[p] = "c_return"
           /\ pc'[p] \in {"m_finally", "done"}
           /\ hist[p].atEntry # NoneHandle
           /\ ~hist[p].overlap
           /\ ~hist[p].stale)
            => /\ result'[p].kind = "cleared"
               /\ result'[p].old = hist[p].atEntry
               /\ result'[p].new # result'[p].old
               /\ user_id[p] \in DOMAIN user_threads'
               /\ user_threads'[user_id[p]] = result'[p].new]_vars
  /\ [](\A q \in Procs :
          (/\ call[q] = "send_message"
           /\ hist[q].resolved
           /\ ~hist[q].overlap
           /\ hist[q].prevKind = "cleared"
           /\ hist[q].prevClean)
            => /\ thread_id[q] = hist[q].prevNew
               /\ ~hist[q].created)

C4_Witness ==
  \E p, q \in Procs :
    /\ call[p] = "clear_conversation"
    /\ Returned(p)
    /\ result[p].kind = "cleared"
    /\ hist[p].atEntry # NoneHandle
    /\ ~hist[p].overlap /\ ~hist[p].stale
    /\ call[q] = "send_message"
    /\ user_id[q] = user_id[p]
    /\ hist[q].resolved /\ ~hist[q].overlap
    /\ hist[q].prevKind = "cleared" /\ hist[q].prevClean
    /\ thread_id[q] = result[p].new

\* What the mapping file held for user u when the process started.
PersistedAtBoot(u) ==
  /\ booted.disk.state = "text"
  /\ WellFormed(booted.disk.text)
  /\ u \in DOMAIN json_load(booted.disk.text)

\* C5: the first _ensure_user_thread for a user after a process start returns
\* the handle the mapping file held for the user and creates no thread.
C5_ReloadedAfterRestart ==
  \A q \in Procs :
    (/\ call[q] = "send_message"
     /\ hist[q].resolved
     /\ ~hist[q].overlap
     /\ hist[q].prevKind = "none"
     /\ PersistedAtBoot(user_id[q]))
      => /\ thread_id[q] = json_load(booted.disk.text)[user_id[q]]
         /\ ~hist[q].created

C5_Witness ==
  \E q \in Procs :
    /\ call[q] = "send_message"
    /\ hist[q].resolved /\ ~hist[q].overlap /\ hist[q].prevKind = "none"
    /\ PersistedAtBoot(user_id[q])
    /\ json_load(booted.disk.text)[user_id[q]].kind \in {"thread", "test_thread"}
    /\ thread_id[q] = json_load(booted.disk.text)[user_id[q]]

\* C6: loading the file that a successful save of the table writes gives the
\* table back.
C6_RoundTrip ==
  /\ ~_load_user_thread_mapping(File(json_dump(user_threads))).raised
  /\ _load_user_thread_mapping(File(json_dump(user_threads))).table = user_threads

C6_Witness ==
  /\ Cardinality(DOMAIN user_threads) = 2
  /\ disk = File(json_dump(user_threads))
  /\ \E p \in Procs : hist[p].inserted /\ ~hist[p].saveFailed /\ hist[p].resolved

\* The mapping file at the last process start was missing, unreadable or unparseable.
BadFileAtBoot == booted.disk.state # "text" \/ ~WellFormed(booted.disk.text)

\* C7: the load never raises (the server comes up), and a missing, unreadable
\* or unparseable file gives the empty table, with which the manager starts.
C7_LoadNeverRaises ==
  /\ serving
  /\ BadFileAtBoot => booted.table = EmptyTable
  /\ (\A p \in Procs : ~hist[p].entered) => user_threads = booted.table

C7_Witness ==
  /\ booted.disk.state = "text"
  /\ Len(booted.disk.text) > 0
  /\ ~WellFormed(booted.disk.text)
  /\ \E p \in Procs : hist[p].resolved

\* C8: a failed save leaves the table as the operation changed it, raises
\* nothing and lets the operation go on to return its handle; a later
\* _ensure_user_thread for the user returns the entry of the table.
C8_SaveFailureKeepsMemory ==
  /\ [][\A p \in Procs :
          (/\ pc[p] \in {"e_save", "c_save"}
           /\ pc'[p] \notin {pc[p], "idle"}
           /\ disk' # File(json_dump(user_threads)))
            => /\ user_threads' = user_threads
               /\ exc'[p] = ""
               /\ pc'[p] = (IF pc[p] = "e_save" THEN AfterEnsure(p) ELSE "e_enter")
               /\ (pc[p] = "e_save"
                     => /\ user_id[p] \in DOMAIN user_threads'
                        /\ thread_id'[p] = user_threads'[user_id[p]])
               /\ (pc[p] = "c_save" => user_id[p] \notin DOMAIN user_threads')]_vars
  /\ [][\A q \in Procs :
          (/\ pc[q] \in {"e_locked1", "e_locked2", "e_save"}
           /\ pc'[q] \in {"s_agent", "c_return"}
           /\ \E p \in Procs : hist[p].saveFailed /\ user_id[p] = user_id[q])
            => /\ user_id[q] \in DOMAIN user_threads'
               /\ thread_id'[q] = user_threads'[user_id[q]]]_vars
  /\ [](\A p \in Procs :
          (/\ call[p] = "clear_conversation"
           /\ hist[p].saveFailed
           /\ ~hist[p].createFailed
           /\ Returned(p))
            => result[p].kind = "cleared")

C8_Witness ==
  \E p, q \in Procs :
    /\ p # q
    /\ hist[p].saveFailed /\ hist[p].inserted /\ hist[p].resolved
    /\ user_id[q] = user_id[p]
    /\ call[q] = "send_message"
    /\ hist[q].resolved /\ ~hist[q].created
    /\ thread_id[q] = thread_id[p]
    /\ user_id[p] \notin DOMAIN _load_user_thread_mapping(disk).table

\* C9: a failed remote thread creation reaches the caller of
\* _ensure_user_thread as an exception, and writes neither the table nor the
\* mapping file: the request inserts nothing and saves nothing.
C9_CreateFailureWritesNothing ==
  /\ [][\A p \in Procs :
          (pc[p] = "e_create" /\ pc'[p] \notin {"e_create", "idle"} /\ hist'[p].createFailed)
            => /\ exc'[p] = "RemoteError"
               /\ pc'[p] = ExceptPc(p)
               /\ user_threads' = user_threads
               /\ disk' = disk]_vars
  /\ [](\A p \in Procs :
          hist[p].createFailed
            => /\ ~hist[p].inserted
               /\ pc[p] \in {"s_except", "c_except", "m_finally", "done"})

C9_Witness ==
  \E p \in Procs :
    /\ hist[p].createFailed
    /\ call[p] = "send_message"
    /\ Returned(p)
    /\ user_id[p] \notin DOMAIN user_threads

\* C10 as stated: a creation failure inside clear_conversation leaves
\* clear_conversation as an exception, not as a return value.
C10_FailureRaised ==
  \A p \in Procs :
    (call[p] = "clear_conversation" /\ hist[p].createFailed /\ Returned(p))
      => result[p].how = "raise"

\* C10 as amended: the creation failure reaches the handler of
\* clear_conversation, which returns the "Failed to clear conversation" text
\* as an ordinary return value, different from the text of a successful reset.
C10_FailureText ==
  \A p \in Procs :
    (call[p] = "clear_conversation" /\ hist[p].createFailed)
      => \/ pc[p] = "c_except" /\ exc[p] = "RemoteError"
         \/ /\ Returned(p)
            /\ result[p] = Text("failed_clear", NoneHandle, NoneHandle)
            /\ result[p].kind # "cleared"

C10_Witness ==
  \E p \in Procs :
    /\ call[p] = "clear_conversation"
    /\ hist[p].createFailed
    /\ hist[p].removed
    /\ Returned(p)
    /\ result[p].kind = "failed_clear"

\* The texts that report a failure of the remote service.
FailureTexts == {"failed_send", "run_failed", "failed_list", "failed_clear"}

\* C11: send_message, list_messages and clear_conversation hand the request
\* layer a text and never an exception; an exception in flight is on its way
\* to the handler of the operation, and an operation in which a thread
\* creation, a message append, a run or a listing failed returns one of the
\* failure texts.
C11_AlwaysText ==
  \A p \in Procs :
    /\ exc[p] # "" => pc[p] \in {"s_except", "c_except"}
    /\ Returned(p)
         => /\ result[p].how = "return"
            /\ exc[p] = ""
            /\ (hist[p].createFailed \/ hist[p].remoteFailed)
                  => result[p].kind \in FailureTexts
            /\ (call[p] = "send_message" /\ hist[p].createFailed)
                  => result[p].kind = "failed_send"
            /\ (call[p] = "list_messages" /\ hist[p].remoteFailed)
                  => result[p].kind = "failed_list"

C11_Witness ==
  \E p, q \in Procs :
    /\ Returned(p) /\ Returned(q)
    /\ call[p] = "send_message"
    /\ hist[p].remoteFailed /\ ~hist[p].createFailed
    /\ result[p].kind = "failed_send"
    /\ call[q] = "clear_conversation"
    /\ hist[q].createFailed
    /\ result[q].kind = "failed_clear"

\* The table a process start would load from the mapping file as it is now.
Persisted == _load_user_thread_mapping(disk).table

NoSaveFailed == \A p \in Procs : ~hist[p].saveFailed

BadHeader(h) == ~h.present \/ h.prefix # "Bearer " \/ h.rest = ""

\* C13: a request without a usable bearer token is answered 401 and is over:
\* it never enters a manager operation, no user is derived for it, and it
\* resolves, creates, inserts, deletes and saves nothing.
C13_RejectedBeforeManager ==
  \A p \in Procs :
    (pc[p] # "idle" /\ BadHeader(hist[p].header))
      => /\ pc[p] = "done"
         /\ result[p] = Raised("http_401")
         /\ token[p] = NoToken
         /\ user_id[p] = ""
         /\ thread_id[p] = NoneHandle
         /\ _mapping_lock # p
         /\ ~hist[p].entered /\ ~hist[p].resolved
         /\ ~hist[p].created /\ ~hist[p].createFailed
         /\ ~hist[p].inserted /\ ~hist[p].removed /\ ~hist[p].saveFailed

C13_Witness ==
  \E p, q \in Procs :
    /\ pc[p] = "done"
    /\ hist[p].header = [present |-> TRUE, prefix |-> "Bearer ", rest |-> ""]
    /\ result[p].kind = "http_401"
    /\ pc[q] = "done"
    /\ hist[q].header = [present |-> TRUE, prefix |-> "Basic ", rest |-> "tA"]
    /\ result[q].kind = "http_401"

\* C15: no two requests are inside the remote thread creation for one user at
\* the same time, and with no reset of the user no two requests have each
\* created a remote thread for it.
C15_OneCreationPerUser ==
  \A p, q \in Procs :
    (p # q /\ user_id[p] = user_id[q])
      => /\ ~(pc[p] = "e_create" /\ pc[q] = "e_create")
         /\ NoResetOn(user_id[p]) => ~(hist[p].created /\ hist[q].created)

\* Request p has a call to the remote service in progress (in a worker thread
\* of asyncio.to_thread) and is suspended until it completes.
InRemoteCall(p) ==
  \/ pc[p] = "e_create" /\ ~test_mode
  \/ pc[p] \in {"s_agent_wait", "s_msg", "s_run", "s_list", "l_remote"}

\* The statements inside a `with self._mapping_lock:` block.
LockedPcs == {"e_locked1", "e_locked2", "e_save", "c_locked", "c_save"}

\* C16 as stated: while any request is inside a remote call, nobody holds the lock.
C16_GuardFreeDuringRemote ==
  (\E p \in Procs : InRemoteCall(p)) => _mapping_lock = NoOne

\* C16 as amended: the lock is never held across a remote call.  A request
\* inside a remote call does not hold it; it is held only by the coroutine
\* that holds the event loop, so it is free at every suspension point and a
\* request that reaches one of the three `with self._mapping_lock:` statements
\* finds it free.
C16_GuardNotHeldAcrossRemote ==
  /\ \A p \in Procs : InRemoteCall(p) => _mapping_lock # p
  /\ running = NoOne => _mapping_lock = NoOne
  /\ _mapping_lock # NoOne => running = _mapping_lock
  /\ \A q \in Procs :
       (pc[q] \in {"e_enter", "e_lock2", "c_enter"} /\ CanRun(q)) => _mapping_lock = NoOne

C16_Witness ==
  \E p, q \in Procs :
    /\ InRemoteCall(p)
    /\ pc[p] = "e_create"
    /\ user_id[q] # user_id[p]
    /\ pc[q] = "e_locked1"
    /\ _mapping_lock = q

\* C17 as stated: no request is inside a remote call or inside the write of
\* the mapping file while it holds the lock.
C17_NoBlockingIOUnderGuard ==
  \A p \in Procs :
    (InRemoteCall(p) \/ pc[p] \in {"e_save", "c_save"}) => _mapping_lock # p

\* C17 as amended: the sections under the lock contain no remote call and no
\* await; the one blocking operation in them is the synchronous write of the
\* mapping file, which is always made with the lock held.
C17_OnlyFileWriteUnderGuard ==
  \A p \in Procs :
    /\ _mapping_lock = p <=> pc[p] \in LockedPcs
    /\ pc[p] \in LockedPcs => running = p /\ ~InRemoteCall(p)

C17_Witness ==
  \E p, q \in Procs :
    /\ pc[p] = "c_save"
    /\ _mapping_lock = p
    /\ InRemoteCall(q)

\* The step is a process start: every request is gone.
ProcessStarts == \A p \in Procs : pc'[p] = "idle"

\* C18: after the load at process start, every step that changes the table
\* is the insert of _ensure_user_thread or the delete of clear_conversation,
\* taken by the request that holds the lock and keeps it for the save.
C18_MutationsUnderGuard ==
  [][user_threads' # user_threads
       => \/ ProcessStarts
          \/ \E p \in Procs :
               /\ _mapping_lock = p
               /\ _mapping_lock' = p
               /\ running = p
               /\ \/ pc[p] = "e_locked2" /\ pc'[p] = "e_save"
                  \/ pc[p] = "c_locked" /\ pc'[p] = "c_save"]_vars

C18_Witness ==
  \E p, q \in Procs :
    /\ hist[p].removed /\ hist[p].inserted
    /\ hist[q].inserted
    /\ user_id[p] # user_id[q]
    /\ Cardinality(DOMAIN user_threads) = 2

\* C19: a request that is about to write the mapping file holds the lock and
\* the event loop, has made its own change to the table in the section it is
\* in (the table shows it), and no other request is inside a section under
\* the lock: no second save, no concurrent change of the table.
C19_SaveUnderGuardAfterMutation ==
  \A p \in Procs :
    pc[p] \in {"e_save", "c_save"}
      => /\ _mapping_lock = p
         /\ running = p
         /\ pc[p] = "e_save"
              => /\ hist[p].inserted
                 /\ user_id[p] \in DOMAIN user_threads
                 /\ user_threads[user_id[p]] = thread_id[p]
         /\ pc[p] = "c_save"
              => /\ hist[p].removed
                 /\ user_id[p] \notin DOMAIN user_threads
         /\ \A q \in Procs \ {p} : pc[q] \notin LockedPcs

C19_Witness ==
  \E p, q \in Procs :
    /\ pc[p] = "e_save"
    /\ pc[q] = "e_create"
    /\ user_id[q] = user_id[p]
    /\ _mapping_lock = p

\* C20: an entry of the table changes or goes only in the delete of a
\* clear_conversation for its user (or at a process start), and the second
\* check of an _ensure_user_thread that finds an entry inserted meanwhile
\* changes neither table nor file and returns that entry.
C20_NoOverwrite ==
  /\ [][\A u \in DOMAIN user_threads :
          (u \notin DOMAIN user_threads' \/ user_threads'[u] # user_threads[u])
            => \/ ProcessStarts
               \/ \E p \in Procs :
                    /\ call[p] = "clear_conversation"
                    /\ user_id[p] = u
                    /\ pc[p] = "c_locked"
                    /\ pc'[p] = "c_save"]_vars
  /\ [][\A p \in Procs :
          (/\ pc[p] = "e_locked2"
           /\ pc'[p] \notin {"e_locked2", "idle"}
           /\ user_id[p] \in DOMAIN user_threads)
            => /\ user_threads' = user_threads
               /\ disk' = disk
               /\ thread_id'[p] = user_threads[user_id[p]]
               /\ pc'[p] = AfterEnsure(p)
               /\ ~hist'[p].inserted]_vars

C20_Witness ==
  \E p, q \in Procs :
    /\ p # q
    /\ user_id[p] = user_id[q]
    /\ hist[q].inserted /\ hist[q].resolved
    /\ hist[p].created /\ ~hist[p].inserted /\ hist[p].resolved
    /\ user_id[p] \in DOMAIN user_threads
    /\ thread_id[p] = user_threads[user_id[p]]
    /\ thread_id[p] = thread_id[q]

\* C21: the first check of _ensure_user_thread, when it finds an entry for
\* the user, returns that entry and releases the lock in the same step, which
\* creates no thread and leaves the table and the mapping file as they are;
\* a call that returned this way has created, inserted and saved nothing.
C21_FastPath ==
  /\ [][\A p \in Procs :
          (/\ pc[p] = "e_locked1"
           /\ pc'[p] \notin {"e_locked1", "idle"}
           /\ user_id[p] \in DOMAIN user_threads)
            => /\ thread_id'[p] = user_threads[user_id[p]]
               /\ pc'[p] = AfterEnsure(p)
               /\ _mapping_lock' = NoOne
               /\ user_threads' = user_threads
               /\ disk' = disk
               /\ issued' = issued
               /\ hist'[p].resolved]_vars
  /\ [](\A p \in Procs :
          (call[p] = "send_message" /\ hist[p].resolved /\ ~hist[p].created)
            => ~hist[p].inserted /\ ~hist[p].createFailed /\ ~hist[p].saveFailed)

C21_Witness ==
  \E p \in Procs :
    /\ call[p] = "send_message"
    /\ hist[p].resolved /\ ~hist[p].created
    /\ hist[p].atEntry \in issued
    /\ thread_id[p] = hist[p].atEntry
    /\ user_id[p] \in DOMAIN user_threads
    /\ user_threads[user_id[p]] = thread_id[p]

\* Request p runs clear_conversation and has left its `with` block, about to
\* call _ensure_user_thread.
AfterClearSection(p) == call[p] = "clear_conversation" /\ pc[p] = "e_enter"

\* C22 as stated: every clear_conversation has saved the table by the time
\* it leaves its section under the lock.
C22_ResetAlwaysSaves ==
  \A p \in Procs : AfterClearSection(p) => hist[p].saved

\* C22 as amended: clear_conversation saves in its section under the lock
\* exactly when the user had an entry, which it deleted; without an entry it
\* leaves the section without a save.
C22_ResetSavesIffRemoved ==
  \A p \in Procs :
    /\ AfterClearSection(p)
         => /\ hist[p].saved <=> hist[p].removed
            /\ hist[p].removed <=> hist[p].atEntry # NoneHandle
            /\ _mapping_lock # p
    /\ pc[p] = "c_save"
         => /\ _mapping_lock = p
            /\ hist[p].removed
            /\ ~hist[p].saved

C22_Witness ==
  \E p, q \in Procs :
    /\ AfterClearSection(p)
    /\ hist[p].saved /\ hist[p].removed
    /\ call[q] = "clear_conversation"
    /\ pc[q] = "done"
    /\ hist[q].entered
    /\ ~hist[q].removed
    /\ hist[q].atEntry = NoneHandle

\* C23: when a clear_conversation for a user that had an entry reaches the
\* creation of the new thread, it has deleted the old entry and saved; from
\* the delete on the table never again maps the user to the old handle
\* (the remote service hands out a handle once; test-mode names may repeat),
\* and right after the section under the lock the user has no entry.
C23_RemoveBeforeCreate ==
  \A p \in Procs :
    /\ AfterClearSection(p) => user_id[p] \notin DOMAIN user_threads
    /\ (call[p] = "clear_conversation" /\ hist[p].atEntry # NoneHandle
           /\ (pc[p] = "e_create" \/ hist[p].created \/ hist[p].createFailed))
         => /\ hist[p].removed
            /\ hist[p].saved
            /\ old_thread_id[p] = hist[p].atEntry
    /\ (call[p] = "clear_conversation" /\ hist[p].removed /\ ~test_mode
           /\ user_id[p] \in DOMAIN user_threads)
         => user_threads[user_id[p]] # old_thread_id[p]

C23_Witness ==
  \E p \in Procs :
    /\ call[p] = "clear_conversation"
    /\ pc[p] = "e_create"
    /\ running = NoOne
    /\ hist[p].removed /\ hist[p].saved /\ ~hist[p].saveFailed
    /\ user_id[p] \notin DOMAIN user_threads
    /\ user_id[p] \notin DOMAIN Persisted
    /\ old_thread_id[p] \in issued

\* Request p runs clear_conversation and is past the read and the delete.
PastClearRead(p) ==
  /\ call[p] = "clear_conversation"
  /\ hist[p].entered
  /\ pc[p] \notin {"c_enter", "c_locked"}

\* C24: the old thread a clear_conversation holds, and reports when it
\* succeeds, is the entry it deleted, or "None" when it deleted nothing; two
\* resets of one user never report the same removed entry (handles of the
\* remote service; test-mode names repeat within a second).
C24_OldIsRemoved ==
  /\ \A p \in Procs :
       PastClearRead(p)
         => /\ hist[p].removed <=> old_thread_id[p] # NoneHandle
            /\ old_thread_id[p] = hist[p].atEntry
            /\ (Returned(p) /\ result[p].kind = "cleared")
                  => result[p].old = old_thread_id[p]
  /\ \A p, q \in Procs :
       (/\ p # q
        /\ ~test_mode
        /\ PastClearRead(p) /\ PastClearRead(q)
        /\ user_id[p] = user_id[q]
        /\ hist[p].removed /\ hist[q].removed)
         => old_thread_id[p] # old_thread_id[q]

C24_Witness ==
  \E p, q \in Procs :
    /\ p # q
    /\ ~test_mode
    /\ user_id[p] = user_id[q]
    /\ PastClearRead(p) /\ PastClearRead(q)
    /\ hist[p].overlap /\ hist[q].overlap
    /\ hist[p].removed /\ ~hist[q].removed
    /\ Returned(p) /\ Returned(q)
    /\ result[p].kind = "cleared" /\ result[q].kind = "cleared"
    /\ result[p].old \in issued \cup {Stored}
    /\ result[q].old = NoneHandle

\* The value is a mapping from user ids to thread ids (strings).
IsThreadMapping(v) ==
  /\ DOMAIN v \subseteq Users
  /\ \A u \in DOMAIN v : v[u].kind \in {"thread", "test_thread", "stored"}

\* C25: once the manager is constructed its table is a mapping from user ids
\* to thread ids, whatever the mapping file held: a file that parses to
\* something else gives the empty table.
C25_UnknownShapeGivesEmpty ==
  serving => IsThreadMapping(user_threads)

\* C26: an operation called with the empty user id fails on the check at
\* the top of _ensure_user_thread (or, for list_messages, finds no thread):
\* _ensure_user_thread does not take the lock, no remote call is made,
\* nothing is created, inserted, deleted or saved, the caller gets the
\* failure text, and neither the table nor the file has an entry for "".
C26_EmptyIdentityRejected ==
  /\ "" \notin DOMAIN user_threads
  /\ "" \notin DOMAIN Persisted
  /\ \A p \in Procs :
       (hist[p].entered /\ user_id[p] = "")
         => /\ pc[p] \in {"e_enter", "c_enter", "c_locked", "l_check",
                           "s_except", "c_except", "m_finally", "done"}
            /\ ~InRemoteCall(p)
            /\ ~hist[p].created /\ ~hist[p].createFailed /\ ~hist[p].remoteFailed
            /\ ~hist[p].inserted /\ ~hist[p].removed /\ ~hist[p].saved
            /\ ~hist[p].resolved
            /\ pc[p] \in {"s_except", "c_except"} => exc[p] = "ValueError"
            /\ Returned(p)
                 => result[p].kind =
                      (CASE call[p] = "send_message" -> "failed_send"
                         [] call[p] = "clear_conversation" -> "failed_clear"
                         [] call[p] = "list_messages" -> "no_thread")

C26_Witness ==
  \E p, q \in Procs :
    /\ user_id[p] = "" /\ user_id[q] = ""
    /\ Returned(p) /\ Returned(q)
    /\ call[p] = "send_message" /\ result[p].kind = "failed_send"
    /\ call[q] = "clear_conversation" /\ result[q].kind = "failed_clear"
    /\ DOMAIN user_threads = {"uA"}

\* C27: the handle an _ensure_user_thread returns is the entry of the table
\* at the step in which it returns, and list_messages tests and reads the
\* table in one step: it answers "no thread" or goes on with the entry of
\* that step, also while a clear_conversation for the user is under way; a
\* listing fails only when the remote call fails.
C27_ReadsAreLinearizable ==
  /\ [][\A p \in Procs :
          (~hist[p].resolved /\ hist'[p].resolved)
            => /\ user_id[p] \in DOMAIN user_threads'
               /\ thread_id'[p] = user_threads'[user_id[p]]]_vars
  /\ [][\A p \in Procs :
          (pc[p] = "l_check" /\ pc'[p] \notin {"l_check", "idle"})
            => IF user_id[p] \in DOMAIN user_threads
                 THEN /\ thread_id'[p] = user_threads[user_id[p]]
                      /\ result'[p].kind \in {"", "mock_messages"}
                      /\ result'[p].kind = "mock_messages"
                            => result'[p].new = user_threads[user_id[p]]
                 ELSE result'[p].kind = "no_thread"]_vars
  /\ [](\A p \in Procs :
          (call[p] = "list_messages" /\ hist[p].entered)
            => /\ exc[p] = ""
               /\ Returned(p) =>
                    /\ result[p].kind \in {"no_thread", "mock_messages", "messages",
                                            "no_messages", "failed_list"}
                    /\ result[p].kind = "failed_list" => hist[p].remoteFailed)

C27_Witness ==
  \E p, q \in Procs :
    /\ call[p] = "clear_conversation"
    /\ hist[p].removed
    /\ pc[p] = "e_create"
    /\ call[q] = "list_messages"
    /\ user_id[q] = user_id[p]
    /\ Returned(q)
    /\ result[q].kind = "no_thread"

\* C28: a step of a request for one user leaves the entry of every other user
\* in the table as it was, present or absent, and a save that succeeds writes
\* a file that holds every other user's entry as the table has it.
SameEntry(t1, t2, u) ==
  /\ u \in DOMAIN t1 <=> u \in DOMAIN t2
  /\ u \in DOMAIN t1 => t1[u] = t2[u]

C28_IsolationBetweenUsers ==
  [][\A p \in Procs :
       (pc'[p] # pc[p] /\ pc'[p] # "idle" /\ pc[p] # "idle")
         => \A j \in Users \ {user_id[p]} :
              /\ SameEntry(user_threads, user_threads', j)
              /\ (pc[p] \in {"e_save", "c_save"} /\ ~hist'[p].saveFailed)
                   => SameEntry(user_threads, _load_user_thread_mapping(disk').table, j)]_vars

C28_Witness ==
  \E p, q \in Procs :
    /\ user_id[p] # user_id[q]
    /\ call[p] = "clear_conversation"
    /\ hist[p].removed /\ hist[p].inserted /\ hist[p].resolved /\ ~hist[p].saveFailed
    /\ hist[q].inserted /\ hist[q].resolved
    /\ user_id[q] \in DOMAIN user_threads
    /\ user_threads[user_id[q]] = thread_id[q]
    /\ SameEntry(user_threads, Persisted, user_id[q])

\* C29: a clear_conversation that removed the user's entry and whose thread
\* creation failed has returned the failure text and left the table without an
\* entry for the user, and the file its save wrote has none either, as long as
\* no other request for that user has started; a send_message that starts
\* without an entry and runs alone creates a new thread and inserts it.
OnlyRequestOf(p) ==
  \A q \in Procs \ {p} : ~(hist[q].entered /\ user_id[q] = user_id[p])

C29_FailedResetLosesEntry ==
  /\ \A p \in Procs :
       (/\ call[p] = "clear_conversation"
        /\ hist[p].removed
        /\ hist[p].createFailed
        /\ Returned(p)
        /\ OnlyRequestOf(p))
         => /\ result[p].kind = "failed_clear"
            /\ user_id[p] \notin DOMAIN user_threads
            /\ ~hist[p].saveFailed => user_id[p] \notin DOMAIN Persisted
  /\ \A q \in Procs :
       (/\ call[q] = "send_message"
        /\ hist[q].atEntry = NoneHandle
        /\ hist[q].resolved
        /\ ~hist[q].overlap /\ ~hist[q].stale)
         => /\ hist[q].created
            /\ hist[q].inserted
            /\ thread_id[q] \in issued

C29_Witness ==
  \E p \in Procs :
    /\ call[p] = "clear_conversation"
    /\ old_thread_id[p] # NoneHandle
    /\ hist[p].removed /\ hist[p].createFailed /\ ~hist[p].saveFailed
    /\ Returned(p)
    /\ OnlyRequestOf(p)
    /\ user_id[p] \notin DOMAIN user_threads
    /\ user_id[p] \notin DOMAIN Persisted

\* C30: a request that reaches a `with self._mapping_lock:` does not hold the
\* lock, the lock is held only inside the three with-blocks (it is released on
\* the early return, after a failed save and before clear_conversation calls
\* _ensure_user_thread), and every request inside send_message or
\* clear_conversation eventually returns, unless the process restarts.
C30_GuardDeadlockFree ==
  /\ [](\A p \in Procs :
          /\ pc[p] \in {"e_enter", "e_lock2", "c_enter"} => _mapping_lock # p
          /\ _mapping_lock = p => pc[p] \in LockedPcs)
  /\ \A p \in Procs :
       (hist[p].entered /\ call[p] \in {"send_message", "clear_conversation"})
         ~> (Returned(p) \/ pc[p] = "idle")

C30_Witness ==
  \E p, q \in Procs :
    /\ p # q
    /\ call[p] = "clear_conversation"
    /\ hist[p].removed /\ hist[p].saveFailed /\ hist[p].inserted
    /\ Returned(p)
    /\ call[q] = "send_message"
    /\ user_id[q] = user_id[p]
    /\ hist[q].overlap /\ hist[q].resolved
    /\ Returned(q)
    /\ _mapping_lock = NoOne

\* C31: a tools/call request whose token passed extract_token_from_header and
\* validate_token is never answered "Error: No authentication token found":
\* _current_token is still set when its handle_call_tool reads it.
C31_TokenStillSet ==
  \A p \in Procs :
    /\ (mode = "http" /\ token[p] # NoToken) => result[p].kind # "no_token_error"
    /\ (pc[p] = "m_call" /\ CanRun(p)) => _current_token # NoToken

====
